---- MODULE Spec2Model ----
(***************************************************************************)
(* A model of DvDRipper.py: the retrying executor run(), the title         *)
(* selector get_largest_title(), the rip supervisor rip_dvd() with its     *)
(* monitor thread poll_file_size_progress(), and the session loop main().  *)
(*                                                                         *)
(* Three specifications share the variables:                               *)
(*   Spec     the whole process: sessions, run(), the three stages, the    *)
(*            primary thread's steps through rip_dvd and every monitor     *)
(*            thread it starts (a monitor tick is one step here);          *)
(*   SpecSel  get_largest_title applied to every bounded disc-info query   *)
(*            result;                                                      *)
(*   SpecMon  one rip attempt, with the monitor thread's tick spelled out  *)
(*            statement by statement against a changing directory.         *)
(***************************************************************************)
EXTENDS Integers, Sequences, FiniteSets, TLC

\* ---------------------------------------------------------------- constants

\* ATTEMPTS = 3
ATTEMPTS == 3

\* Bounds of the model.
MaxSessions == 2   \* sessions (calls of main) in one process
MaxLines    == 3   \* lines of a disc-info text
MaxSize     == 2   \* largest byte size a file of the working directory takes

\* ---------------------------------------------------------------- state

VARIABLES
    \* primary thread
    pc,              \* position of the primary thread
    session,         \* number of the running session (depth of main's recursion)
    runFn,           \* run(): the wrapped function's name
    i,               \* run(): the loop variable
    fnResult,        \* outcome of the last call of the wrapped function
    output,          \* run(): the local `output`
    largest_title,   \* main(): largest_title_index, largest_title_size
    new_file_path,   \* main(): new_file_path
    mp4_output_file, \* main(): mp4_output_file
    exitCode,        \* the status given to sys.exit; None while running
    rip,             \* rip_dvd(): the frame of the attempt in progress, or None
    orphans,         \* monitor threads left running by attempts that have ended
    progress_bar,    \* rip_dvd(): the tqdm bar of the current attempt
    sendOutcome,     \* how the last send_message call ended
    \* history of the current run() call and session
    invoked,         \* calls of the wrapped function made by this run()
    failed,          \* of which raised
    handlerCalls,    \* calls of error_handler
    notified,        \* send_message attempts made inside error_handler
    stages,          \* stages the session has started, in order
    \* get_largest_title (SpecSel)
    query,           \* what subprocess.run gave: raised, returncode, stdout
    selection,       \* what get_largest_title gave for it
    \* poll_file_size_progress (SpecMon)
    files,           \* *.mkv files of the output directory: name -> size
    mpc,             \* position of the monitor thread
    mkv_files,       \* its local mkv_files
    current_file,    \* its local current_file
    progress,        \* its local progress
    current_progress,\* its local current_progress
    reported,        \* values the monitor wrote to progress_bar.n, in order
    \* the directories (SpecFs)
    output_file_name,\* main(): output_file_name
    workdir,         \* the output directory temp/<drive>: exists, files (name -> mtime)
    outdir,          \* the directory output/: exists, files (name -> mtime)
    ripped_file,     \* rip_dvd(): ripped_file
    delete_mkv,      \* main(): delete_mkv
    printed          \* the error messages the cleanup has printed

pipeVars == <<pc, session, runFn, i, fnResult, output, largest_title, new_file_path,
              mp4_output_file, exitCode, rip, orphans, progress_bar, sendOutcome, invoked, failed,
              handlerCalls, notified, stages>>
selVars  == <<query, selection>>
monVars  == <<files, mpc, mkv_files, current_file, progress, current_progress, reported>>
fsVars   == <<output_file_name, workdir, outdir, ripped_file, delete_mkv, printed>>
vars     == <<pipeVars, selVars, monVars, fsVars>>

None == [none |-> TRUE]

\* Python values whose type matters to a comparison.
PyStr(s) == [str |-> s]
PyInt(n) == [int |-> n]

\* ------------------------------------------------- get_largest_title (pure)

\* A line of the disc-info text after line.strip() and line.split(","): the text
\* before the title index in parts[0] ("TINFO:" for a title record) and the
\* fields; parts[1] is parts[0] without the prefix, parts[4] the characters
\* between the quotes of the fourth field.
TitleIds == {"0", "1"}
SizeStrs == { <<>>, <<"0">>, <<"1">>, <<"2">>, <<"0", "2">>, <<"1", "0">>,
              <<"-", "1">>, <<"x">> }
SizeLines == { [prefix |-> "TINFO:", parts |-> <<t, "11", "0", s>>] :
                 t \in TitleIds, s \in SizeStrs }
OtherLines == { [prefix |-> "CINFO:", parts |-> <<"0", "11", "0", <<"2">> >>],
                [prefix |-> "TINFO:", parts |-> <<"1", "10", "0", <<"2">> >>],
                [prefix |-> "TINFO:", parts |-> <<"1", "11", "0">>] }
Lines == SizeLines \cup OtherLines

Texts == UNION { [1..n -> Lines] : n \in 0..MaxLines }

\* subprocess.run's outcomes: it raised, or it gave a return code and stdout.
Queries == { [raised |-> TRUE, returncode |-> 0, stdout |-> <<>>] } \cup
           [raised : {FALSE}, returncode : {0, 1}, stdout : Texts]

Digits == {"0", "1", "2"}
DigitValue(c) == CASE c = "0" -> 0 [] c = "1" -> 1 [] c = "2" -> 2

RECURSIVE DecimalValue(_)
DecimalValue(s) ==
    IF s = <<>> THEN 0
    ELSE 10 * DecimalValue(SubSeq(s, 1, Len(s) - 1)) + DigitValue(s[Len(s)])

Unsigned(s) == IF s /= <<>> /\ s[1] \in {"-", "+"} THEN Tail(s) ELSE s

\* int(size_str) raises ValueError unless the string is an optional sign and
\* one or more digits.
IntRaises(s) == Unsigned(s) = <<>> \/ \E k \in 1..Len(Unsigned(s)) : Unsigned(s)[k] \notin Digits

int(s) == IF s /= <<>> /\ s[1] = "-" THEN 0 - DecimalValue(Unsigned(s))
          ELSE DecimalValue(Unsigned(s))

\* try: file_size = int(size_str)  except ValueError: file_size = 0
file_size(size_str) == IF IntRaises(size_str) THEN 0 ELSE int(size_str)

\* A selector that keeps every line, whatever it starts with.
tinfo_lines_unfiltered(stdout) == stdout

\* tinfo_lines: the lines that start with "TINFO:"
tinfo_lines(stdout) == SelectSeq(stdout, LAMBDA line : line.prefix = "TINFO:")

\* if file_size > largest_title_size: take the line
Larger(size, largest_title_size) == size > largest_title_size

\* The loop over tinfo_lines, from line k on, with the two loop variables.
RECURSIVE ScanTitles(_, _, _, _)
ScanTitles(lines, k, largest_title_index, largest_title_size) ==
    IF k > Len(lines) THEN [index |-> largest_title_index, size |-> largest_title_size]
    ELSE LET parts == lines[k].parts
         IN  IF Len(parts) >= 4 /\ parts[2] = "11"
                /\ Larger(file_size(parts[4]), largest_title_size)
             THEN ScanTitles(lines, k + 1, PyStr(parts[1]), file_size(parts[4]))
             ELSE ScanTitles(lines, k + 1, largest_title_index, largest_title_size)

Raised(message) == [ok |-> FALSE, val |-> message]
Returned(value) == [ok |-> TRUE, val |-> value]

get_largest_title(q) ==
    IF q.raised THEN Raised("Error running MakeMKV")
    ELSE IF q.returncode /= 0 \/ q.stdout = <<>> THEN Raised("MakeMKV returned an error")
    ELSE LET found == ScanTitles(tinfo_lines(q.stdout), 1, PyInt(-1), 0)
         IN  IF found.index = PyInt(-1) THEN Raised("Could not find any titles on the DVD.")
             ELSE Returned(found)

\* ------------------------------------------------------------ run (166-175)

\* What the disc-info query gives in a session of the whole process: a sample of
\* Queries (SpecSel covers them all).
SampleQueries ==
    { [raised |-> TRUE, returncode |-> 0, stdout |-> <<>>],
      [raised |-> FALSE, returncode |-> 1, stdout |-> <<>>],
      [raised |-> FALSE, returncode |-> 0, stdout |->
          << [prefix |-> "TINFO:", parts |-> <<"0", "11", "0", <<"1">> >>],
             [prefix |-> "TINFO:", parts |-> <<"1", "11", "0", <<"2">> >>] >>],
      [raised |-> FALSE, returncode |-> 0, stdout |->
          << [prefix |-> "TINFO:", parts |-> <<"0", "11", "0", <<"1">> >>] >>],
      [raised |-> FALSE, returncode |-> 0, stdout |->
          << [prefix |-> "TINFO:", parts |-> <<"0", "11", "0", <<"0">> >>] >>] }

\* The wrapped function raises: control goes to run()'s except clause.
Raise(message) ==
    /\ fnResult' = Raised(message)
    /\ failed' = failed + 1
    /\ pc' = "run_except"

\* The wrapped function returns: control goes to the assignment of `output`.
Return(value) ==
    /\ fnResult' = Returned(value)
    /\ failed' = failed
    /\ pc' = "run_assign"

\* main calls run(function, ...): a fresh frame, i = 1.
StartRun(function) ==
    /\ runFn' = function
    /\ i' = 1
    /\ output' = None
    /\ fnResult' = None
    /\ invoked' = 0
    /\ failed' = 0
    /\ pc' = "run_call"

\* run() returned to main: its frame is gone.
EndRun ==
    /\ runFn' = "none"
    /\ i' = 0
    /\ output' = None
    /\ fnResult' = None
    /\ invoked' = 0
    /\ failed' = 0

Entry(function) ==
    CASE function = "get_largest_title" -> "glt"
      [] function = "rip_dvd"           -> "rip_popen"
      [] function = "encode_to_mp4"     -> "encode"

\* output = function(*args, **kwargs): the call
RunCall ==
    /\ pc = "run_call"
    /\ invoked' = invoked + 1
    /\ pc' = Entry(runFn)
    /\ UNCHANGED <<session, runFn, i, fnResult, output, largest_title, new_file_path,
                   mp4_output_file, exitCode, rip, orphans, progress_bar, sendOutcome, failed,
                   handlerCalls, notified, stages, selVars, fsVars, monVars>>

\* output = function(*args, **kwargs): the assignment, then `return output`
RunAssign ==
    /\ pc = "run_assign"
    /\ output' = fnResult.val
    /\ pc' = "run_return"
    /\ UNCHANGED <<session, runFn, i, fnResult, largest_title, new_file_path,
                   mp4_output_file, exitCode, rip, orphans, progress_bar, sendOutcome, invoked,
                   failed, handlerCalls, notified, stages, selVars, fsVars, monVars>>

\* The comparison off by one, either way.
RetryOneShort(attempt) == attempt < ATTEMPTS - 1
RetryOneMore(attempt) == attempt <= ATTEMPTS

\* if i < ATTEMPTS: continue
Retry(attempt) == attempt < ATTEMPTS

\* An executor that gives up after the last attempt and returns to its caller.
RunExceptGivesUp ==
    /\ pc = "run_except"
    /\ IF Retry(i)
       THEN i' = i + 1 /\ pc' = "run_call"
       ELSE pc' = "run_return" /\ UNCHANGED i
    /\ UNCHANGED <<session, runFn, fnResult, output, largest_title, new_file_path,
                   mp4_output_file, exitCode, rip, orphans, progress_bar, sendOutcome,
                   invoked, failed, handlerCalls, notified, stages, selVars, fsVars, monVars>>

\* except Exception: retry, or error_handler(...) on the last attempt
RunExcept ==
    /\ pc = "run_except"
    /\ IF Retry(i)
       THEN /\ i' = i + 1
            /\ pc' = "run_call"
            /\ UNCHANGED handlerCalls
       ELSE /\ handlerCalls' = handlerCalls + 1
            /\ pc' = "eh_send"
            /\ UNCHANGED i
    /\ UNCHANGED <<session, runFn, fnResult, output, largest_title, new_file_path,
                   mp4_output_file, exitCode, rip, orphans, progress_bar, sendOutcome, invoked,
                   failed, notified, stages, selVars, fsVars, monVars>>

\* ---------------------------------------------------- error_handler (20-27)

\* print(message); try: send_message(...) except Exception: print(...)
ErrorSend ==
    /\ pc = "eh_send"
    /\ notified' = notified + 1
    /\ \E o \in {"sent", "raised"} : sendOutcome' = o
    /\ pc' = "eh_exit"
    /\ UNCHANGED <<session, runFn, i, fnResult, output, largest_title, new_file_path,
                   mp4_output_file, exitCode, rip, orphans, progress_bar, invoked, failed,
                   handlerCalls, stages, selVars, fsVars, monVars>>

\* sys.exit(1): SystemExit is no Exception, so no handler of the program stops it
ErrorExit ==
    /\ pc = "eh_exit"
    /\ exitCode' = 1
    /\ pc' = "sys_exit"
    /\ UNCHANGED <<session, runFn, i, fnResult, output, largest_title, new_file_path,
                   mp4_output_file, rip, orphans, progress_bar, sendOutcome, invoked, failed,
                   handlerCalls, notified, stages, selVars, fsVars, monVars>>

\* Monitor threads alive in the process.
AliveMonitors == orphans + (IF rip /= None /\ rip.monitor = "alive" THEN 1 ELSE 0)

\* The interpreter ends the process once every non-daemon thread has ended.
Terminate ==
    /\ pc = "sys_exit"
    /\ AliveMonitors = 0
    /\ pc' = "exited"
    /\ UNCHANGED <<session, runFn, i, fnResult, output, largest_title, new_file_path,
                   mp4_output_file, exitCode, rip, orphans, progress_bar, sendOutcome, invoked,
                   failed, handlerCalls, notified, stages, selVars, fsVars, monVars>>

\* ------------------------------------------------------- the wrapped stages

\* get_largest_title(drive_letter), as run() calls it
GetLargestTitle ==
    /\ pc = "glt"
    /\ \E q \in SampleQueries :
         LET r == get_largest_title(q)
         IN  IF r.ok THEN Return(r.val) ELSE Raise(r.val)
    /\ UNCHANGED <<session, runFn, i, output, largest_title, new_file_path,
                   mp4_output_file, exitCode, rip, orphans, progress_bar, sendOutcome, invoked,
                   handlerCalls, notified, stages, selVars, fsVars, monVars>>

\* encode_to_mp4(new_file_path, output_file_name, output_directory)
EncodeToMp4 ==
    /\ pc = "encode"
    /\ \/ Return(PyStr("temp/D/name.mp4"))
       \/ Raise("HandBrakeCLI returned an error during conversion")
    /\ UNCHANGED <<session, runFn, i, output, largest_title, new_file_path,
                   mp4_output_file, exitCode, rip, orphans, progress_bar, sendOutcome, invoked,
                   handlerCalls, notified, stages, selVars, fsVars, monVars>>

\* ------------------------------------------------------- rip_dvd (92-140)

\* The frame of a rip attempt once Popen has returned: the arguments, the
\* process, the stop event and the monitor thread.
\* output_directory = os.path.join("temp", drive_letter)
output_directory == "temp/D"

\* A retry that is given another expected size than the first attempt.
NewRipOtherSize == [title_index |-> largest_title.index,
                    expected_file_size |-> largest_title.size + (i - 1),
                    output_file_name |-> output_file_name,
                    output_directory |-> output_directory,
                    process |-> "running", returncode |-> None,
                    stop_event |-> FALSE, monitor |-> "none"]

NewRip == [title_index |-> largest_title.index,
           expected_file_size |-> largest_title.size,
           output_file_name |-> output_file_name,
           output_directory |-> output_directory,
           process |-> "running", returncode |-> None,
           stop_event |-> FALSE, monitor |-> "none"]

\* rip_dvd ends, by return or by raise: its frame goes, and with it the only
\* reference to stop_event. A monitor thread still running stays running, and
\* keeps its progress bar.
LeaveRip ==
    /\ rip' = None
    /\ IF rip /= None /\ rip.monitor = "alive"
       THEN orphans' = orphans + 1 /\ UNCHANGED progress_bar
       ELSE progress_bar' = None /\ UNCHANGED orphans

\* process = subprocess.Popen(command, ...)
RipPopen ==
    /\ pc = "rip_popen"
    /\ \/ /\ rip' = NewRip
          /\ pc' = "rip_start"
          /\ UNCHANGED <<fnResult, failed>>
       \/ /\ Raise("Popen raised")
          /\ UNCHANGED rip
    /\ UNCHANGED <<session, runFn, i, output, largest_title, new_file_path,
                   mp4_output_file, exitCode, orphans, progress_bar, sendOutcome,
                   invoked, handlerCalls, notified, stages, selVars, fsVars, monVars>>

\* progress_bar = tqdm(...); stop_event = threading.Event(); monitor_thread.start()
\* The new thread is at the head of poll_file_size_progress: current_progress = 0.
RipStartMonitor ==
    /\ pc = "rip_start"
    /\ progress_bar' = [n |-> 0, total |-> rip.expected_file_size, closed |-> FALSE]
    /\ rip' = [rip EXCEPT !.monitor = "alive"]
    /\ mpc' = "loop"
    /\ mkv_files' = {}
    /\ current_file' = None
    /\ progress' = 0
    /\ current_progress' = 0
    /\ reported' = <<>>
    /\ pc' = "rip_drain"
    /\ UNCHANGED <<session, runFn, i, fnResult, output, largest_title, new_file_path,
                   mp4_output_file, exitCode, orphans, sendOutcome, invoked, failed,
                   handlerCalls, notified, stages, selVars, fsVars, files>>

\* for line in process.stdout: pass   -- ends at end of file: the process has
\* closed its output or has exited; reading a line may raise (text=True decodes
\* the bytes).
RipDrain ==
    /\ pc = "rip_drain"
    /\ \/ /\ rip.process \in {"stdout_closed", "exited"}
          /\ pc' = "rip_wait"
          /\ UNCHANGED <<fnResult, failed, rip, orphans, progress_bar>>
       \/ /\ Raise("reading process.stdout raised")
          /\ LeaveRip
    /\ UNCHANGED <<session, runFn, i, output, largest_title, new_file_path,
                   mp4_output_file, exitCode, sendOutcome, invoked,
                   handlerCalls, notified, stages, selVars, fsVars, monVars>>

\* A wait that does not block.
WaitedNoBlock == rip.process \in {"running", "stdout_closed", "exited"}

\* process.wait() returns once the process has exited
Waited == rip.process = "exited"

RipWait ==
    /\ pc = "rip_wait"
    /\ Waited
    /\ pc' = "rip_stop"
    /\ UNCHANGED <<session, runFn, i, fnResult, output, largest_title, new_file_path,
                   mp4_output_file, exitCode, rip, orphans, progress_bar, sendOutcome,
                   invoked, failed, handlerCalls, notified, stages, selVars, fsVars, monVars>>

\* stop_event.set()
RipStop ==
    /\ pc = "rip_stop"
    /\ rip' = [rip EXCEPT !.stop_event = TRUE]
    /\ pc' = "rip_join"
    /\ UNCHANGED <<session, runFn, i, fnResult, output, largest_title, new_file_path,
                   mp4_output_file, exitCode, orphans, progress_bar, sendOutcome,
                   invoked, failed, handlerCalls, notified, stages, selVars, fsVars, monVars>>

\* A join that returns at once.
JoinedAtOnce == TRUE

\* monitor_thread.join() returns once the thread has ended
Joined == rip.monitor /= "alive"

RipJoin ==
    /\ pc = "rip_join"
    /\ Joined
    /\ pc' = "rip_bar"
    /\ UNCHANGED <<session, runFn, i, fnResult, output, largest_title, new_file_path,
                   mp4_output_file, exitCode, rip, orphans, progress_bar, sendOutcome,
                   invoked, failed, handlerCalls, notified, stages, selVars, fsVars, monVars>>

\* progress_bar.n = expected_file_size; progress_bar.refresh(); progress_bar.close()
RipBar ==
    /\ pc = "rip_bar"
    /\ progress_bar' = [progress_bar EXCEPT !.n = rip.expected_file_size,
                                            !.closed = TRUE]
    /\ pc' = "rip_rc"
    /\ UNCHANGED <<session, runFn, i, fnResult, output, largest_title, new_file_path,
                   mp4_output_file, exitCode, rip, orphans, sendOutcome, invoked,
                   failed, handlerCalls, notified, stages, selVars, fsVars, monVars>>

\* if process.returncode != 0: raise
RipCheck ==
    /\ pc = "rip_rc"
    /\ IF rip.returncode /= PyInt(0)
       THEN /\ Raise("MakeMKV returned an error during ripping.")
            /\ LeaveRip
       ELSE /\ pc' = "rip_locate"
            /\ UNCHANGED <<fnResult, failed, rip, orphans, progress_bar>>
    /\ UNCHANGED <<session, runFn, i, output, largest_title, new_file_path,
                   mp4_output_file, exitCode, sendOutcome, invoked,
                   handlerCalls, notified, stages, selVars, fsVars, monVars>>

\* mkv_files = sorted(glob.glob(...), key=os.path.getmtime, reverse=True)
\* if not mkv_files: raise      (getmtime raises for a file that went meanwhile)
RipLocate ==
    /\ pc = "rip_locate"
    /\ \/ /\ pc' = "rip_rename"
          /\ UNCHANGED <<fnResult, failed, rip, orphans, progress_bar>>
       \/ /\ Raise("No MKV file found after ripping.")
          /\ LeaveRip
    /\ UNCHANGED <<session, runFn, i, output, largest_title, new_file_path,
                   mp4_output_file, exitCode, sendOutcome, invoked,
                   handlerCalls, notified, stages, selVars, fsVars, monVars>>

\* os.rename(ripped_file, new_file_path); return new_file_path
RipRename ==
    /\ pc = "rip_rename"
    /\ \/ Return(PyStr("temp/D/name.mkv"))
       \/ Raise("Error renaming MKV file")
    /\ LeaveRip
    /\ UNCHANGED <<session, runFn, i, output, largest_title, new_file_path,
                   mp4_output_file, exitCode, sendOutcome, invoked,
                   handlerCalls, notified, stages, selVars, fsVars, monVars>>

\* The ripping process closes its output while it goes on running.
ProcessClosesStdout ==
    /\ rip /= None
    /\ rip.process = "running"
    /\ rip' = [rip EXCEPT !.process = "stdout_closed"]
    /\ UNCHANGED <<pc, session, runFn, i, fnResult, output, largest_title, new_file_path,
                   mp4_output_file, exitCode, orphans, progress_bar, sendOutcome,
                   invoked, failed, handlerCalls, notified, stages, selVars, fsVars, monVars>>

\* The ripping process exits, with a return code.
ProcessExits ==
    /\ rip /= None
    /\ rip.process /= "exited"
    /\ \E rc \in {0, 1} :
         rip' = [rip EXCEPT !.process = "exited", !.returncode = PyInt(rc)]
    /\ UNCHANGED <<pc, session, runFn, i, fnResult, output, largest_title, new_file_path,
                   mp4_output_file, exitCode, orphans, progress_bar, sendOutcome,
                   invoked, failed, handlerCalls, notified, stages, selVars, fsVars, monVars>>

\* poll_file_size_progress, one tick as one step: `while not stop_event.is_set()`
\* finds the event set and the thread ends.
MonitorStops ==
    /\ rip /= None
    /\ rip.monitor = "alive"
    /\ rip.stop_event
    /\ rip' = [rip EXCEPT !.monitor = "done"]
    /\ mpc' = "done"
    /\ UNCHANGED <<pc, session, runFn, i, fnResult, output, largest_title, new_file_path,
                   mp4_output_file, exitCode, orphans, progress_bar, sendOutcome,
                   invoked, failed, handlerCalls, notified, stages, selVars, fsVars, files,
                   mkv_files, current_file, progress, current_progress, reported>>

\* poll_file_size_progress, one tick as one step: max(mkv_files, key=os.path.getsize)
\* is outside the try, it raises for a file that went after glob listed it, and
\* the thread ends with the exception.
MonitorDies ==
    /\ rip /= None
    /\ rip.monitor = "alive"
    /\ rip' = [rip EXCEPT !.monitor = "crashed"]
    /\ mpc' = "crashed"
    /\ UNCHANGED <<pc, session, runFn, i, fnResult, output, largest_title, new_file_path,
                   mp4_output_file, exitCode, orphans, progress_bar, sendOutcome,
                   invoked, failed, handlerCalls, notified, stages, selVars, fsVars, files,
                   mkv_files, current_file, progress, current_progress, reported>>

\* The same, in a monitor thread whose attempt has ended.
OrphanDies ==
    /\ orphans > 0
    /\ orphans' = orphans - 1
    /\ UNCHANGED <<pc, session, runFn, i, fnResult, output, largest_title, new_file_path,
                   mp4_output_file, exitCode, rip, progress_bar, sendOutcome,
                   invoked, failed, handlerCalls, notified, stages, selVars, fsVars, monVars>>

\* ------------------------------------------------------- main (177-238)

\* The two input() calls, the working directory, then run(get_largest_title, ...).
\* os.makedirs raising goes to error_handler.
MainStart ==
    /\ pc = "main"
    /\ \/ /\ stages' = <<"select">>
          /\ StartRun("get_largest_title")
          /\ UNCHANGED handlerCalls
       \/ /\ handlerCalls' = handlerCalls + 1
          /\ pc' = "eh_send"
          /\ UNCHANGED <<runFn, i, fnResult, output, invoked, failed, stages>>
    /\ UNCHANGED <<session, largest_title, new_file_path, mp4_output_file, exitCode,
                   rip, orphans, progress_bar, sendOutcome, notified, selVars, fsVars, monVars>>

\* input() raises (end of input): the exception leaves main
InputFails ==
    /\ pc \in {"main", "cleanup"}
    /\ pc' = "unexpected"
    /\ UNCHANGED <<session, runFn, i, fnResult, output, largest_title, new_file_path,
                   mp4_output_file, exitCode, rip, orphans, progress_bar, sendOutcome, invoked,
                   failed, handlerCalls, notified, stages, selVars, fsVars, monVars>>

\* largest_title_index, largest_title_size = run(get_largest_title, drive_letter)
\* ... new_file_path = run(rip_dvd, largest_title_index, ...)
AfterSelect ==
    /\ pc = "run_return"
    /\ runFn = "get_largest_title"
    /\ largest_title' = output
    /\ stages' = Append(stages, "rip")
    /\ StartRun("rip_dvd")
    /\ UNCHANGED <<session, new_file_path, mp4_output_file, exitCode, rip, orphans,
                   progress_bar, sendOutcome, handlerCalls, notified, selVars, fsVars, monVars>>

\* new_file_path = run(rip_dvd, ...): the assignment
AfterRip ==
    /\ pc = "run_return"
    /\ runFn = "rip_dvd"
    /\ new_file_path' = output
    /\ EndRun
    /\ pc' = "notify_ripped"
    /\ UNCHANGED <<session, largest_title, mp4_output_file, exitCode, rip, orphans,
                   progress_bar, sendOutcome, handlerCalls, notified, stages, selVars, fsVars,
                   monVars>>

\* A notification whose failure leaves main instead of being printed.
NotifyRippedPropagates ==
    /\ pc = "notify_ripped"
    /\ stages' = Append(stages, "notify_ripped")
    /\ \E o \in {"sent", "raised"} :
         /\ sendOutcome' = o
         /\ pc' = IF o = "raised" THEN "unexpected" ELSE "start_encode"
    /\ UNCHANGED <<session, runFn, i, fnResult, output, largest_title, new_file_path,
                   mp4_output_file, exitCode, rip, orphans, progress_bar, invoked, failed,
                   handlerCalls, notified, selVars, fsVars, monVars>>

\* try: send_message("Movies", "... has been ripped!") except Exception: print(...)
NotifyRipped ==
    /\ pc = "notify_ripped"
    /\ stages' = Append(stages, "notify_ripped")
    /\ \E o \in {"sent", "raised"} : sendOutcome' = o
    /\ pc' = "start_encode"
    /\ UNCHANGED <<session, runFn, i, fnResult, output, largest_title, new_file_path,
                   mp4_output_file, exitCode, rip, orphans, progress_bar, invoked, failed,
                   handlerCalls, notified, selVars, fsVars, monVars>>

\* mp4_output_file = run(encode_to_mp4, ...): the call
StartEncode ==
    /\ pc = "start_encode"
    /\ stages' = Append(stages, "encode")
    /\ StartRun("encode_to_mp4")
    /\ UNCHANGED <<session, largest_title, new_file_path, mp4_output_file, exitCode,
                   rip, orphans, progress_bar, sendOutcome, handlerCalls, notified, selVars, fsVars,
                   monVars>>

\* mp4_output_file = run(encode_to_mp4, ...): the assignment
AfterEncode ==
    /\ pc = "run_return"
    /\ runFn = "encode_to_mp4"
    /\ mp4_output_file' = output
    /\ EndRun
    /\ pc' = "notify_encoded"
    /\ UNCHANGED <<session, largest_title, new_file_path, exitCode, rip, orphans,
                   progress_bar, sendOutcome, handlerCalls, notified, stages, selVars, fsVars,
                   monVars>>

\* try: send_message("Movies", "... ripped and encoded") except Exception: print(...)
NotifyEncoded ==
    /\ pc = "notify_encoded"
    /\ stages' = Append(stages, "notify_encoded")
    /\ \E o \in {"sent", "raised"} : sendOutcome' = o
    /\ pc' = "cleanup"
    /\ UNCHANGED <<session, runFn, i, fnResult, output, largest_title, new_file_path,
                   mp4_output_file, exitCode, rip, orphans, progress_bar, invoked, failed,
                   handlerCalls, notified, selVars, fsVars, monVars>>

\* A cleanup whose failing step leaves main instead of being printed.
CleanupPropagates ==
    /\ pc = "cleanup"
    /\ stages' = Append(stages, "cleanup")
    /\ pc' \in {"restart", "unexpected"}
    /\ UNCHANGED <<session, runFn, i, fnResult, output, largest_title, new_file_path,
                   mp4_output_file, exitCode, rip, orphans, progress_bar, sendOutcome, invoked,
                   failed, handlerCalls, notified, selVars, fsVars, monVars>>

\* delete_mkv = input(...); if "yes": remove, rename, purge, each in its own try
Cleanup ==
    /\ pc = "cleanup"
    /\ stages' = Append(stages, "cleanup")
    /\ pc' = "restart"
    /\ UNCHANGED <<session, runFn, i, fnResult, output, largest_title, new_file_path,
                   mp4_output_file, exitCode, rip, orphans, progress_bar, sendOutcome, invoked,
                   failed, handlerCalls, notified, selVars, fsVars, monVars>>

\* print("Restarting the program..."); main()  -- a new frame of main on top of
\* the frames of every earlier session, none of which ever returns. The
\* interpreter bounds the depth of calls; MaxSessions stands for the number of
\* sessions whose frames fit. The call that no longer fits raises
\* RecursionError, an Exception, which no frame of main handles. (The depth of
\* the calls made inside a session is not modelled.)
Restart ==
    /\ pc = "restart"
    /\ IF session < MaxSessions
       THEN /\ session' = session + 1
            /\ largest_title' = None
            /\ new_file_path' = None
            /\ mp4_output_file' = None
            /\ stages' = <<>>
            /\ pc' = "main"
       ELSE /\ pc' = "unexpected"
            /\ UNCHANGED <<session, largest_title, new_file_path, mp4_output_file, stages>>
    /\ UNCHANGED <<runFn, i, fnResult, output, exitCode, rip, orphans, progress_bar,
                   sendOutcome, invoked, failed, handlerCalls, notified, selVars, fsVars,
                   monVars>>

\* __main__: except Exception: try send_message(...) except ...; sys.exit(1)
TopLevelHandler ==
    /\ pc = "unexpected"
    /\ \E o \in {"sent", "raised"} : sendOutcome' = o
    /\ exitCode' = 1
    /\ pc' = "sys_exit"
    /\ UNCHANGED <<session, runFn, i, fnResult, output, largest_title, new_file_path,
                   mp4_output_file, rip, orphans, progress_bar, invoked, failed, handlerCalls,
                   notified, stages, selVars, fsVars, monVars>>

\* ------------------------------------------------------- the whole process

InitSel == /\ query = None
           /\ selection = None

InitMon == /\ files = [f \in {} |-> 0]
           /\ mpc = "idle"
           /\ mkv_files = {}
           /\ current_file = None
           /\ progress = 0
           /\ current_progress = 0
           /\ reported = <<>>

\* A directory: whether it exists, and the modification time of each file in it.
NoFiles == [f \in {} |-> 0]
NoDir == [exists |-> FALSE, files |-> NoFiles]

InitFs == /\ output_file_name = "name"
          /\ workdir = NoDir
          /\ outdir = NoDir
          /\ ripped_file = None
          /\ delete_mkv = None
          /\ printed = {}

InitPipe == /\ pc = "main"
            /\ session = 1
            /\ runFn = "none"
            /\ i = 0
            /\ fnResult = None
            /\ output = None
            /\ largest_title = None
            /\ new_file_path = None
            /\ mp4_output_file = None
            /\ exitCode = None
            /\ rip = None
            /\ orphans = 0
            /\ progress_bar = None
            /\ sendOutcome = "none"
            /\ invoked = 0
            /\ failed = 0
            /\ handlerCalls = 0
            /\ notified = 0
            /\ stages = <<>>

Init == InitPipe /\ InitSel /\ InitMon /\ InitFs

Next ==
    \/ MainStart \/ InputFails \/ AfterSelect \/ AfterRip \/ NotifyRipped
    \/ StartEncode \/ AfterEncode \/ NotifyEncoded \/ Cleanup \/ Restart
    \/ TopLevelHandler
    \/ RunCall \/ RunAssign \/ RunExcept
    \/ ErrorSend \/ ErrorExit \/ Terminate
    \/ GetLargestTitle \/ EncodeToMp4
    \/ RipPopen \/ RipStartMonitor \/ RipDrain \/ RipWait \/ RipStop \/ RipJoin
    \/ RipBar \/ RipCheck \/ RipLocate \/ RipRename
    \/ ProcessClosesStdout \/ ProcessExits
    \/ MonitorStops \/ MonitorDies \/ OrphanDies

Spec == Init /\ [][Next]_vars

\* ------------------------------------------------- the title selector alone

\* get_largest_title applied to the query result
SelectTitle ==
    /\ selection = None
    /\ selection' = get_largest_title(query)
    /\ UNCHANGED <<query, pipeVars, monVars, fsVars>>

InitSelector == /\ query \in Queries
                /\ selection = None
                /\ InitPipe
                /\ InitMon
                /\ InitFs

NextSel == SelectTitle

SpecSel == InitSelector /\ [][NextSel]_vars

\* The "file size" records of a text: the positions of the lines that start with
\* "TINFO:", have a fourth field and carry the type code 11.
SizeRecords(text) ==
    { k \in 1..Len(text) : /\ text[k].prefix = "TINFO:"
                           /\ Len(text[k].parts) >= 4
                           /\ text[k].parts[2] = "11" }

RecordSize(text, k) == file_size(text[k].parts[4])
RecordTitle(text, k) == PyStr(text[k].parts[1])

\* The query succeeded and gave a text, and the selector has run on it.
Selected == /\ selection /= None
            /\ ~query.raised
            /\ query.returncode = 0
            /\ query.stdout /= <<>>

\* C4: for a text with at least one file-size record, get_largest_title returns
\* the title and size of a record of maximal size, the first such in the text.
C4_ReturnsFirstLargest ==
    (Selected /\ SizeRecords(query.stdout) /= {}) =>
        /\ selection.ok
        /\ \E k \in SizeRecords(query.stdout) :
             /\ selection.val = [index |-> RecordTitle(query.stdout, k),
                                 size |-> RecordSize(query.stdout, k)]
             /\ \A j \in SizeRecords(query.stdout) :
                  /\ RecordSize(query.stdout, j) <= RecordSize(query.stdout, k)
                  /\ RecordSize(query.stdout, j) = RecordSize(query.stdout, k) => k <= j

\* C5: when the text has file-size records and every one has size 0 (a literal 0
\* or a malformed number), get_largest_title still returns a title, with size 0.
C5_AllZeroStillSelects ==
    (/\ Selected
     /\ SizeRecords(query.stdout) /= {}
     /\ \A k \in SizeRecords(query.stdout) : RecordSize(query.stdout, k) = 0) =>
        /\ selection.ok
        /\ selection.val.size = 0

\* C6: for a text with no file-size record, whatever else it holds,
\* get_largest_title raises and returns no title.
C6_NoRecordRaises ==
    (selection /= None /\ SizeRecords(query.stdout) = {}) => ~selection.ok

C6_Witness ==
    /\ Selected
    /\ SizeRecords(query.stdout) = {}
    /\ Len(query.stdout) = MaxLines
    /\ \E k \in 1..Len(query.stdout) : query.stdout[k].prefix = "TINFO:"
    /\ \E k \in 1..Len(query.stdout) : query.stdout[k].prefix /= "TINFO:"
    /\ ~selection.ok

\* ---------------------------------------------------- the retrying executor

\* C1: an operation that raises on its first k < ATTEMPTS calls and then succeeds
\* makes run() return that value after exactly k + 1 calls, with no escalation:
\* error_handler is reached from run() only after ATTEMPTS failures.
C1_SuccessAfterKFailures ==
    /\ pc = "run_return" =>
         /\ fnResult.ok
         /\ output = fnResult.val
         /\ failed < ATTEMPTS
         /\ invoked = failed + 1
         /\ handlerCalls = 0
    /\ (runFn /= "none" /\ handlerCalls > 0) => failed = ATTEMPTS

C1_Witness ==
    /\ pc = "run_return"
    /\ runFn = "rip_dvd"
    /\ failed = ATTEMPTS - 1
    /\ output = PyStr("temp/D/name.mkv")

Escalated == {"eh_send", "eh_exit", "sys_exit", "exited"}

\* C2: an operation that raises on ATTEMPTS consecutive calls is called exactly
\* ATTEMPTS times and never more; error_handler runs once, with one notification
\* attempt; run() does not return and the operation is not called again.
C2_ExhaustionEscalatesOnce ==
    /\ invoked <= ATTEMPTS
    /\ handlerCalls <= 1
    /\ notified <= handlerCalls
    /\ failed >= ATTEMPTS =>
         /\ failed = ATTEMPTS
         /\ invoked = ATTEMPTS
         /\ pc \in {"run_except"} \cup Escalated
         /\ pc \in Escalated => handlerCalls = 1
         /\ pc \in Escalated \ {"eh_send"} => notified = 1

C2_Witness ==
    /\ pc = "exited"
    /\ runFn = "rip_dvd"
    /\ failed = ATTEMPTS
    /\ exitCode = 1

\* ------------------------------------------------------- the stage order

StageOrder == <<"select", "rip", "notify_ripped", "encode", "notify_encoded", "cleanup">>

IsPrefix(s, t) == Len(s) <= Len(t) /\ \A k \in 1..Len(s) : s[k] = t[k]

Started(stage) == \E k \in 1..Len(stages) : stages[k] = stage

\* C3: a session's stages start in the order select, rip, notify 'ripped', encode,
\* notify 'encoded', cleanup; rip_dvd starts only after get_largest_title has
\* returned in the session and encode_to_mp4 only after rip_dvd has returned;
\* the stage that failed for good is the last the session started.
C3_StagesInOrder ==
    /\ IsPrefix(stages, StageOrder)
    /\ (Started("rip") \/ runFn = "rip_dvd") =>
         /\ largest_title /= None
         /\ largest_title.index \in {PyStr(t) : t \in TitleIds}
    /\ (Started("encode") \/ runFn = "encode_to_mp4") =>
         /\ Started("rip")
         /\ new_file_path = PyStr("temp/D/name.mkv")
    /\ runFn = "get_largest_title" => stages = <<"select">>
    /\ runFn = "rip_dvd" => stages = <<"select", "rip">>
    /\ runFn = "encode_to_mp4" => stages = <<"select", "rip", "notify_ripped", "encode">>

C3_Witness ==
    /\ session = MaxSessions
    /\ pc = "exited"
    /\ runFn = "encode_to_mp4"
    /\ failed = ATTEMPTS
    /\ stages = <<"select", "rip", "notify_ripped", "encode">>

\* ------------------------------------------------------- the rip attempt

\* C9: in a rip attempt the stop event is set only after process.wait() has
\* returned (the process has exited), and the primary thread reads the return
\* code and the directory only after the monitor thread has been joined.
C9_StopAfterExitReadAfterJoin ==
    rip /= None =>
        /\ rip.stop_event =>
             /\ rip.process = "exited"
             /\ pc \notin {"rip_start", "rip_drain", "rip_wait"}
        /\ pc \in {"rip_bar", "rip_rc", "rip_locate", "rip_rename"} =>
             /\ rip.stop_event
             /\ rip.monitor \in {"done", "crashed"}

C9_Witness ==
    /\ pc = "rip_locate"
    /\ rip.stop_event
    /\ rip.monitor = "done"
    /\ rip.returncode = PyInt(0)

\* C10: at most one monitor thread is alive at any time, across the attempts
\* run() makes and across sessions.
C10_AtMostOneMonitor == AliveMonitors <= 1

\* ------------------------------------------------------- notifications

\* C13: a notification that cannot be delivered never aborts the pipeline: after
\* the 'ripped' notification the next step is the encode, after the 'encoded'
\* notification it is the cleanup prompt, and after error_handler's notification
\* it is the exit with status 1, whether send_message raised or not.
C13_SendFailureNeverAborts ==
    [][ /\ (pc = "notify_ripped" /\ pc' /= pc) => pc' = "start_encode"
        /\ (pc = "notify_encoded" /\ pc' /= pc) => pc' = "cleanup"
        /\ (pc = "eh_send" /\ pc' /= pc) => pc' = "eh_exit"
        /\ (pc = "eh_exit" /\ pc' /= pc) => (pc' = "sys_exit" /\ exitCode' = 1) ]_vars

\* The 'ripped' notification raised and the session is about to encode.
C13_Witness ==
    /\ pc = "start_encode"
    /\ sendOutcome = "raised"
    /\ stages = <<"select", "rip", "notify_ripped">>

\* ------------------------------------------------------- the exit paths

\* sys.exit has been called with a non-zero status.
NonZeroExit == pc \in {"sys_exit", "exited"} /\ exitCode /= 0

\* run() has used up its attempts and called error_handler.
ExitByRun == handlerCalls = 1 /\ runFn /= "none" /\ i = ATTEMPTS /\ failed = ATTEMPTS

\* main called error_handler itself: the working directory could not be made.
ExitByMakedirs == handlerCalls = 1 /\ runFn = "none" /\ stages = <<>>

\* An exception left main and the handler around main exited: a prompt raised,
\* or the restart did.
ExitByTopLevel ==
    /\ handlerCalls = 0
    /\ runFn = "none"
    /\ \/ stages = <<>>
       \/ stages = <<"select", "rip", "notify_ripped", "encode", "notify_encoded">>
       \/ stages = StageOrder /\ session = MaxSessions

\* C14 as the claim states it: every termination with a non-zero status comes
\* from run() using up its attempts and calling error_handler, and from no
\* other path.
C14_OnlyRunEscalates == NonZeroExit => ExitByRun

\* C14, amended: every termination with a non-zero status comes from
\* error_handler, called by run() after ATTEMPTS failures or by main when the
\* working directory cannot be created, or from the handler around main after
\* an exception left main (a prompt or the restart raising); a failed
\* notification or cleanup step never ends the process.
C14_ExitPaths == NonZeroExit => (ExitByRun \/ ExitByMakedirs \/ ExitByTopLevel)

\* The process has ended with status 1 through the handler around main, after
\* the cleanup prompt raised.
C14_Witness ==
    /\ pc = "exited"
    /\ NonZeroExit
    /\ handlerCalls = 0
    /\ Len(stages) = 5

\* ------------------------------------------------------- the retry domains

\* get_largest_title has returned in this session.
SelectionDone ==
    \/ largest_title /= None
    \/ runFn = "get_largest_title" /\ pc \in {"run_assign", "run_return"}

\* C15: within a session, once get_largest_title has returned it is not called
\* again and its result is kept, however often rip_dvd is retried, and every rip
\* attempt is given the selected title, its size, the same directory and the
\* same base name.
C15_SeparateRetryDomains ==
    [][ /\ (SelectionDone /\ session' = session) => pc' /= "glt"
        /\ (largest_title /= None /\ session' = session) => largest_title' = largest_title
        /\ rip' /= None => /\ rip'.title_index = largest_title'.index
                           /\ rip'.expected_file_size = largest_title'.size
                           /\ rip'.output_directory = output_directory
                           /\ rip'.output_file_name = output_file_name' ]_vars

\* The third attempt of rip_dvd is running, after two failures.
C15_Witness ==
    /\ runFn = "rip_dvd"
    /\ i = ATTEMPTS
    /\ failed = ATTEMPTS - 1
    /\ rip /= None
    /\ rip.title_index = largest_title.index

\* ------------------------------------------------------- the restart

\* C18: when a session has finished its cleanup step the next session starts,
\* however many sessions the process has already run.
C18_AlwaysRestarts ==
    [][ (pc = "restart" /\ pc' /= pc) => (pc' = "main" /\ session' = session + 1) ]_vars

\* ------------------------------------------------------- the failed rip

\* C19: when rip_dvd has failed ATTEMPTS times and error_handler has asked for
\* the exit, no monitor thread is alive to keep the process from ending.
C19_NoMonitorAfterEscalation ==
    (pc = "sys_exit" /\ runFn = "rip_dvd" /\ failed = ATTEMPTS) => AliveMonitors = 0

\* ------------------------------- poll_file_size_progress (71-90), statement
\* ------------------------------- by statement, and the directory it watches

FileNames == {"A.mkv", "B.mkv"}

\* The *.mkv files of the output directory: a size for each file present.
Dirs == UNION { [d -> 0..MaxSize] : d \in SUBSET FileNames }

Present == DOMAIN files

\* The ripping process may be writing: it has not been seen to exit. (An attempt
\* that ended with its monitor alive never waited for the process.)
Writing == \/ rip /= None /\ rip.process /= "exited"
           \/ rip = None /\ orphans > 0

\* The process creates an empty file, ...
FileCreated(f) ==
    /\ Writing
    /\ f \notin Present
    /\ files' = [g \in Present \cup {f} |-> IF g = f THEN 0 ELSE files[g]]
    /\ UNCHANGED <<pipeVars, selVars, fsVars, mpc, mkv_files, current_file, progress,
                   current_progress, reported>>

\* ... gives a file another size, larger or smaller, ...
FileResized(f) ==
    /\ Writing
    /\ f \in Present
    /\ \E size \in {files[f] - 1, files[f] + 1} \cap (0..MaxSize) :
         files' = [files EXCEPT ![f] = size]
    /\ UNCHANGED <<pipeVars, selVars, fsVars, mpc, mkv_files, current_file, progress,
                   current_progress, reported>>

\* ... or removes a file.
FileRemoved(f) ==
    /\ Writing
    /\ f \in Present
    /\ files' = [g \in Present \ {f} |-> files[g]]
    /\ UNCHANGED <<pipeVars, selVars, fsVars, mpc, mkv_files, current_file, progress,
                   current_progress, reported>>

\* The monitor thread ends, as `how`: join sees it, or one orphan less.
MonitorEnds(how) ==
    /\ mpc' = how
    /\ IF rip /= None
       THEN rip' = [rip EXCEPT !.monitor = how] /\ UNCHANGED orphans
       ELSE orphans' = orphans - 1 /\ UNCHANGED rip

\* A loop that, finding the stop event set, writes the largest size in the
\* directory to the progress bar before it ends.
MonLoopFinalSample ==
    /\ mpc = "loop"
    /\ IF rip /= None /\ rip.stop_event
       THEN /\ MonitorEnds("done")
            /\ \E size \in {0} \cup {files[f] : f \in Present} :
                 /\ \A f \in Present : files[f] <= size
                 /\ progress_bar' = [progress_bar EXCEPT !.n = size]
                 /\ reported' = Append(reported, size)
       ELSE mpc' = "glob" /\ UNCHANGED <<rip, orphans, progress_bar, reported>>
    /\ UNCHANGED <<pc, session, runFn, i, fnResult, output, largest_title, new_file_path,
                   mp4_output_file, exitCode, sendOutcome, invoked,
                   failed, handlerCalls, notified, stages, selVars, fsVars, files, mkv_files,
                   current_file, progress, current_progress>>

\* while not stop_event.is_set():
MonLoop ==
    /\ mpc = "loop"
    /\ IF rip /= None /\ rip.stop_event
       THEN MonitorEnds("done")
       ELSE mpc' = "glob" /\ UNCHANGED <<rip, orphans>>
    /\ UNCHANGED <<pc, session, runFn, i, fnResult, output, largest_title, new_file_path,
                   mp4_output_file, exitCode, progress_bar, sendOutcome, invoked,
                   failed, handlerCalls, notified, stages, selVars, fsVars, files, mkv_files,
                   current_file, progress, current_progress, reported>>

\* mkv_files = glob.glob(...); if mkv_files:
MonGlob ==
    /\ mpc = "glob"
    /\ mkv_files' = Present
    /\ mpc' = IF Present = {} THEN "sleep" ELSE "max"
    /\ UNCHANGED <<pipeVars, selVars, fsVars, files, current_file, progress, current_progress,
                   reported>>

\* current_file = max(mkv_files, key=os.path.getsize) -- before the try: getsize
\* raises for a listed file that is no longer there, and the thread ends.
MonMax ==
    /\ mpc = "max"
    /\ IF mkv_files \subseteq Present
       THEN /\ \E f \in mkv_files :
                 /\ \A g \in mkv_files : files[g] <= files[f]
                 /\ current_file' = f
            /\ mpc' = "getsize"
            /\ UNCHANGED <<rip, orphans>>
       ELSE /\ MonitorEnds("crashed")
            /\ UNCHANGED current_file
    /\ UNCHANGED <<pc, session, runFn, i, fnResult, output, largest_title, new_file_path,
                   mp4_output_file, exitCode, progress_bar, sendOutcome, invoked,
                   failed, handlerCalls, notified, stages, selVars, fsVars, files, mkv_files,
                   progress, current_progress, reported>>

\* try: progress = os.path.getsize(current_file) ... except Exception: print(...)
MonGetsize ==
    /\ mpc = "getsize"
    /\ IF current_file \in Present
       THEN progress' = files[current_file] /\ mpc' = "compare"
       ELSE UNCHANGED progress /\ mpc' = "sleep"
    /\ UNCHANGED <<pipeVars, selVars, fsVars, files, mkv_files, current_file, current_progress,
                   reported>>

\* Any change of the size counts.
Changed(size, high) == size /= high

\* if progress > current_progress:
Advanced(size, high) == size > high

\* progress_bar.n = progress; progress_bar.refresh(); current_progress = progress
MonUpdate ==
    /\ mpc = "compare"
    /\ IF Advanced(progress, current_progress)
       THEN /\ progress_bar' = [progress_bar EXCEPT !.n = progress]
            /\ reported' = Append(reported, progress)
            /\ current_progress' = progress
       ELSE UNCHANGED <<progress_bar, reported, current_progress>>
    /\ mpc' = "sleep"
    /\ UNCHANGED <<pc, session, runFn, i, fnResult, output, largest_title, new_file_path,
                   mp4_output_file, exitCode, rip, orphans, sendOutcome, invoked,
                   failed, handlerCalls, notified, stages, selVars, fsVars, files, mkv_files,
                   current_file, progress>>

\* time.sleep(1)
MonSleep ==
    /\ mpc = "sleep"
    /\ mpc' = "loop"
    /\ UNCHANGED <<pipeVars, selVars, fsVars, files, mkv_files, current_file, progress,
                   current_progress, reported>>

\* One rip attempt, the first run() makes, for any expected size and any
\* content of the output directory.
InitMonitor ==
    /\ pc = "rip_popen"
    /\ session = 1
    /\ runFn = "rip_dvd"
    /\ i = 1
    /\ fnResult = None
    /\ output = None
    /\ \E size \in 1..MaxSize : largest_title = [index |-> PyStr("0"), size |-> size]
    /\ new_file_path = None
    /\ mp4_output_file = None
    /\ exitCode = None
    /\ rip = None
    /\ orphans = 0
    /\ progress_bar = None
    /\ sendOutcome = "none"
    /\ invoked = 1
    /\ failed = 0
    /\ handlerCalls = 0
    /\ notified = 0
    /\ stages = <<"select", "rip">>
    /\ InitSel
    /\ InitFs
    /\ files \in Dirs
    /\ mpc = "idle"
    /\ mkv_files = {}
    /\ current_file = None
    /\ progress = 0
    /\ current_progress = 0
    /\ reported = <<>>

NextMon ==
    \/ RipPopen \/ RipStartMonitor \/ RipDrain \/ RipWait \/ RipStop \/ RipJoin
    \/ RipBar \/ RipCheck \/ RipLocate \/ RipRename
    \/ ProcessClosesStdout \/ ProcessExits
    \/ MonLoop \/ MonGlob \/ MonMax \/ MonGetsize \/ MonUpdate \/ MonSleep
    \/ \E f \in FileNames : FileCreated(f) \/ FileResized(f) \/ FileRemoved(f)

SpecMon == InitMonitor /\ [][NextMon]_vars

Monotonic(s) == \A j, k \in 1..Len(s) : j <= k => s[j] <= s[k]

\* C7: the values one run of poll_file_size_progress writes to the progress bar
\* never decrease, whatever the directory shows from tick to tick.
C7_ReportsNeverDecrease == Monotonic(reported)

\* Two values written, then a tick that read a smaller size and wrote nothing.
C7_Witness ==
    /\ Len(reported) >= 2
    /\ mpc = "sleep"
    /\ progress < current_progress
    /\ progress_bar.n = current_progress

\* The monitor thread gets its turns: each of its statements, once it is the
\* next one, is executed.
SpecMonFair ==
    /\ SpecMon
    /\ WF_mpc(MonLoop) /\ WF_mpc(MonGlob) /\ WF_mpc(MonMax)
    /\ WF_mpc(MonGetsize) /\ WF_mpc(MonUpdate) /\ WF_mpc(MonSleep)

\* stop_event.set() has been executed.
StopSet == rip /= None /\ rip.stop_event

\* The monitor thread has ended.
MonitorEnded == mpc \in {"done", "crashed"}

\* C16: once the stop event is set the monitor thread ends, so that join returns;
\* the test of the event at the head of the loop that finds it set ends the
\* thread at that very step, and from the moment the event is set at the head of
\* the loop, and after the thread has ended, the monitor writes nothing to the
\* progress bar.
C16_StopEndsMonitorWithoutSample ==
    /\ [][ /\ (StopSet /\ mpc = "loop" /\ mpc' /= mpc) => (mpc' = "done" /\ reported' = reported)
           /\ MonitorEnded => (mpc' = mpc /\ reported' = reported) ]_vars
    /\ (StopSet ~> MonitorEnded)

\* The monitor has ended on the stop event, join has returned, and a file in the
\* directory is larger than the last value the monitor wrote.
C16_Witness ==
    /\ mpc = "done"
    /\ pc = "rip_bar"
    /\ \E f \in Present : files[f] > current_progress

\* C17: the monitor never writes to the progress bar after rip_dvd has set it to
\* the expected size and closed it: a closed bar shows the expected size,
\* whether the process succeeded or not.
C17_ClosedBarIsFull ==
    (progress_bar /= None /\ progress_bar.closed) =>
        /\ progress_bar.n = progress_bar.total
        /\ progress_bar.total = largest_title.size
        /\ mpc \in {"done", "crashed"}

\* The bar is closed on a failed attempt whose monitor had written a smaller
\* value.
C17_Witness ==
    /\ progress_bar /= None
    /\ progress_bar.closed
    /\ rip /= None
    /\ rip.returncode /= PyInt(0)
    /\ reported /= <<>>
    /\ reported[Len(reported)] < progress_bar.total

\* C8: an error reading the directory or a file's size never ends the monitor
\* loop: the thread ends by finding the stop event set, never by an exception.
C8_MonitorEndsOnlyOnStop == mpc /= "crashed"

\* ------------------------------- the directories: rip_dvd's rename (126-140)
\* ------------------------------- and main's cleanup (213-233)

\* Base names the user may enter; the second is also the name the ripping tool
\* gives its file.
BaseNames == {"name", "title_t00"}

\* The file the ripping tool writes.
ToolFile == "title_t00.mkv"

\* Modification times: of a file that was there before the session, and of a
\* file written in it.
Old == 1
New == 2

\* Files the output directory may hold when the session starts: from an earlier
\* attempt or an earlier session.
Leftovers == {"name.mkv", "title_t00.mkv", "old.mkv", "name.mp4"}

Names == Leftovers \cup {b \o ".mkv" : b \in BaseNames} \cup {b \o ".mp4" : b \in BaseNames}

\* os.path.join(directory, name)
join(directory, name) == directory \o "/" \o name

\* os.path.basename, on the paths the program builds
basename(path) == CHOOSE n \in Names : join(output_directory, n) = path

\* glob.glob(os.path.join(output_directory, "*.mkv"))
IsMkv(name) == \E stem \in {"name", "title_t00", "old"} : name = stem \o ".mkv"
glob_mkv(directory) == {f \in DOMAIN directory.files : IsMkv(f)}

\* sorted(..., key=os.path.getmtime, reverse=True)[0]: a file no other is newer than
Newest(directory, names) ==
    {f \in names : \A g \in names : directory.files[g] <= directory.files[f]}

\* A file written into a directory, new or over the one of that name.
Written(directory, name, mtime) ==
    [directory EXCEPT !.files = [f \in DOMAIN directory.files \cup {name} |->
                                   IF f = name THEN mtime ELSE directory.files[f]]]

\* A file taken out of a directory.
Removed(directory, names) ==
    [directory EXCEPT !.files = [f \in DOMAIN directory.files \ names |-> directory.files[f]]]

\* The source stays under its name as well.
Copied(directory, src, dst) == Written(directory, dst, directory.files[src])

\* os.rename(src, dst) inside one directory: dst is the file src was, and src
\* is no longer there; a file that was at dst is replaced.
Renamed(directory, src, dst) ==
    [directory EXCEPT !.files = [f \in (DOMAIN directory.files \ {src}) \cup {dst} |->
                                   IF f = dst THEN directory.files[src]
                                   ELSE directory.files[f]]]

\* What the directory actions leave alone of the process.
fsPipeRest == <<session, runFn, i, output, largest_title, exitCode, rip, orphans,
                progress_bar, sendOutcome, invoked, failed, handlerCalls, notified, stages>>

\* rip_dvd up to the return-code check, seen from the directory: makemkvcon has
\* exited with code 0, having written its file or not.
FsTool ==
    /\ pc = "fs_tool"
    /\ \/ \E mtime \in {Old, New} : workdir' = Written(workdir, ToolFile, mtime)
       \/ UNCHANGED workdir
    /\ pc' = "fs_locate"
    /\ UNCHANGED <<fsPipeRest, fnResult, new_file_path, mp4_output_file, output_file_name,
                   outdir, ripped_file, delete_mkv, printed, selVars, monVars>>

\* mkv_files = sorted(glob.glob(...), key=os.path.getmtime, reverse=True)
\* if not mkv_files: raise ...; ripped_file = mkv_files[0]
FsLocate ==
    /\ pc = "fs_locate"
    /\ IF glob_mkv(workdir) = {}
       THEN /\ fnResult' = Raised("No MKV file found after ripping.")
            /\ pc' = "fs_raised"
            /\ UNCHANGED ripped_file
       ELSE /\ ripped_file' \in Newest(workdir, glob_mkv(workdir))
            /\ pc' = "fs_rename"
            /\ UNCHANGED fnResult
    /\ UNCHANGED <<fsPipeRest, new_file_path, mp4_output_file, output_file_name, workdir,
                   outdir, delete_mkv, printed, selVars, monVars>>

\* new_file_name = f"{output_file_name}.mkv"
new_file_name == output_file_name \o ".mkv"

\* try: os.rename(ripped_file, new_file_path) except: raise ...; return new_file_path
\* os.rename raises when the system refuses; on Windows it does so whenever
\* another file has the new name.
FsRename ==
    /\ pc = "fs_rename"
    /\ \/ /\ workdir' = Renamed(workdir, ripped_file, new_file_name)
          /\ fnResult' = Returned(PyStr(join(output_directory, new_file_name)))
          /\ pc' = "fs_returned"
       \/ /\ fnResult' = Raised("Error renaming MKV file")
          /\ pc' = "fs_raised"
          /\ UNCHANGED workdir
    /\ UNCHANGED <<fsPipeRest, new_file_path, mp4_output_file, output_file_name, outdir,
                   ripped_file, delete_mkv, printed, selVars, monVars>>

\* new_file_path = run(rip_dvd, ...): rip_dvd's value, through run()
FsAssign ==
    /\ pc = "fs_returned"
    /\ new_file_path' = fnResult.val
    /\ pc' = "fs_encode"
    /\ UNCHANGED <<fsPipeRest, fnResult, mp4_output_file, selVars, monVars, fsVars>>

\* mp4_output_file = run(encode_to_mp4, new_file_path, output_file_name,
\* output_directory): HandBrakeCLI writes <output_file_name>.mp4, or fails
FsEncode ==
    /\ pc = "fs_encode"
    /\ \/ /\ workdir' = Written(workdir, output_file_name \o ".mp4", New)
          /\ mp4_output_file' = PyStr(join(output_directory, output_file_name \o ".mp4"))
          /\ pc' = "fs_prompt"
          /\ UNCHANGED fnResult
       \/ /\ fnResult' = Raised("HandBrakeCLI returned an error during conversion")
          /\ pc' = "fs_raised"
          /\ UNCHANGED <<workdir, mp4_output_file>>
    /\ UNCHANGED <<fsPipeRest, new_file_path, output_file_name, outdir, ripped_file,
                   delete_mkv, printed, selVars, monVars>>

\* delete_mkv = input(...).strip().lower(); if delete_mkv == "yes":
FsPrompt ==
    /\ pc = "fs_prompt"
    /\ \E answer \in {"yes", "no"} :
         /\ delete_mkv' = answer
         /\ pc' = IF answer = "yes" THEN "fs_remove" ELSE "fs_done"
    /\ UNCHANGED <<fsPipeRest, fnResult, new_file_path, mp4_output_file, output_file_name,
                   workdir, outdir, ripped_file, printed, selVars, monVars>>

\* try: os.remove(new_file_path) except Exception: print("Error deleting MKV file:", e)
FsRemoveMkv ==
    /\ pc = "fs_remove"
    /\ \/ /\ basename(new_file_path.str) \in DOMAIN workdir.files
          /\ workdir' = Removed(workdir, {basename(new_file_path.str)})
          /\ UNCHANGED printed
       \/ /\ printed' = printed \cup {"Error deleting MKV file:"}
          /\ UNCHANGED workdir
    /\ pc' = "fs_move"
    /\ UNCHANGED <<fsPipeRest, fnResult, new_file_path, mp4_output_file, output_file_name,
                   outdir, ripped_file, delete_mkv, selVars, monVars>>

\* try: os.rename(mp4_output_file, f"output/{output_file_name}.mp4")
\* except Exception: print("Error moving MP4 file:", e)
\* Nothing in the program creates the directory output; os.rename raises when
\* it is not there, and when the system refuses (on Windows whenever a file of
\* that name is already in it).
FsMoveMp4 ==
    /\ pc = "fs_move"
    /\ \/ /\ outdir.exists
          /\ basename(mp4_output_file.str) \in DOMAIN workdir.files
          /\ outdir' = Written(outdir, output_file_name \o ".mp4",
                               workdir.files[basename(mp4_output_file.str)])
          /\ workdir' = Removed(workdir, {basename(mp4_output_file.str)})
          /\ UNCHANGED printed
       \/ /\ printed' = printed \cup {"Error moving MP4 file:"}
          /\ UNCHANGED <<workdir, outdir>>
    /\ pc' = "fs_purge"
    /\ UNCHANGED <<fsPipeRest, fnResult, new_file_path, mp4_output_file, output_file_name,
                   ripped_file, delete_mkv, selVars, monVars>>

\* try: for file in os.listdir(output_directory): os.remove(...)
\*      os.rmdir(output_directory)
\* except Exception: print("Error cleaning up output directory:", e)
\* The files go one by one, in the order listdir gives them, until a call raises.
FsPurge ==
    /\ pc = "fs_purge"
    /\ \E gone \in SUBSET DOMAIN workdir.files :
         \/ /\ gone = DOMAIN workdir.files
            /\ workdir' = NoDir
            /\ UNCHANGED printed
         \/ /\ workdir' = Removed(workdir, gone)
            /\ printed' = printed \cup {"Error cleaning up output directory:"}
    /\ pc' = "fs_done"
    /\ UNCHANGED <<fsPipeRest, fnResult, new_file_path, mp4_output_file, output_file_name,
                   outdir, ripped_file, delete_mkv, selVars, monVars>>

\* One session from the return-code check of its first rip attempt on, for any
\* base name and any content of the two directories.
InitFilesystem ==
    /\ pc = "fs_tool"
    /\ session = 1
    /\ runFn = "rip_dvd"
    /\ i = 1
    /\ fnResult = None
    /\ output = None
    /\ largest_title = [index |-> PyStr("0"), size |-> 1]
    /\ new_file_path = None
    /\ mp4_output_file = None
    /\ exitCode = None
    /\ rip = None
    /\ orphans = 0
    /\ progress_bar = None
    /\ sendOutcome = "none"
    /\ invoked = 1
    /\ failed = 0
    /\ handlerCalls = 0
    /\ notified = 0
    /\ stages = <<"select", "rip">>
    /\ InitSel
    /\ InitMon
    /\ output_file_name \in BaseNames
    /\ \E left \in SUBSET Leftovers :
         workdir = [exists |-> TRUE, files |-> [f \in left |-> Old]]
    /\ \/ outdir = NoDir
       \/ \E left \in SUBSET {b \o ".mp4" : b \in BaseNames} :
            outdir = [exists |-> TRUE, files |-> [f \in left |-> Old]]
    /\ ripped_file = None
    /\ delete_mkv = None
    /\ printed = {}

NextFs ==
    \/ FsTool \/ FsLocate \/ FsRename \/ FsAssign \/ FsEncode
    \/ FsPrompt \/ FsRemoveMkv \/ FsMoveMp4 \/ FsPurge

SpecFs == InitFilesystem /\ [][NextFs]_vars

\* C11: when rip_dvd returns, one file of the output directory has been renamed
\* to <output_file_name>.mkv (the file is there under the new name and no longer
\* under the old one, and every other file is as it was), and the value
\* returned is the output directory joined with <output_file_name>.mkv,
\* whatever the tool called its file and whatever other .mkv files are there.
C11_RenamesOneReturnsJoinedPath ==
    [][ (pc = "fs_rename" /\ pc' = "fs_returned") =>
          LET before == workdir.files
              after  == workdir'.files
              target == output_file_name \o ".mkv"
          IN  /\ fnResult'.ok
              /\ fnResult'.val = PyStr("temp/D/" \o target)
              /\ target \in DOMAIN after
              /\ after[target] = before[ripped_file]
              /\ ripped_file /= target => ripped_file \notin DOMAIN after
              /\ DOMAIN after \subseteq DOMAIN before \cup {target}
              /\ \A f \in DOMAIN before \ {ripped_file, target} :
                   f \in DOMAIN after /\ after[f] = before[f] ]_vars

\* rip_dvd has returned after renaming the tool's file, with another .mkv file
\* still in the directory.
C11_Witness ==
    /\ pc = "fs_returned"
    /\ ripped_file = ToolFile
    /\ output_file_name = "name"
    /\ fnResult = Returned(PyStr("temp/D/name.mkv"))
    /\ DOMAIN workdir.files = {"name.mkv", "old.mkv", "name.mp4"}

\* The file HandBrakeCLI wrote in this session is in the directory.
Holds(directory, name) ==
    /\ directory.exists
    /\ name \in DOMAIN directory.files
    /\ directory.files[name] = New

AfterEncodeFs == pc \in {"fs_prompt", "fs_remove", "fs_move", "fs_purge", "fs_done"}

\* C12: when the answer to the cleanup prompt is 'yes', then at the end of the
\* cleanup the .mkv file is gone, the .mp4 file is in the directory output and
\* nowhere else, and the working directory is gone.
C12_CleanupPostcondition ==
    (pc = "fs_done" /\ delete_mkv = "yes") =>
        /\ basename(new_file_path.str) \notin DOMAIN workdir.files
        /\ Holds(outdir, output_file_name \o ".mp4")
        /\ output_file_name \o ".mp4" \notin DOMAIN workdir.files
        /\ ~workdir.exists

\* C20: from the successful encode to the end of the session the encoded .mp4
\* file is in the working directory or in the directory output, whichever
\* cleanup steps fail.
C20_Mp4NeverLost ==
    AfterEncodeFs => \/ Holds(workdir, output_file_name \o ".mp4")
                     \/ Holds(outdir, output_file_name \o ".mp4")

====
